---- MODULE Spec2Model ----
(***************************************************************************)
(* Model of stock_forecast_with_sentiment.py: the retry / backoff /        *)
(* degrade loop of fetch_ticker_news_with_retry, the sentiment aggregation *)
(* and the per-ticker batch loop of main.                                  *)
(*                                                                         *)
(* Text is a sequence of words, and Python's `sub in text` is the search   *)
(* for a contiguous run of words.  A float is an exact fraction            *)
(* [num, den] in lowest terms; 0.0 is [num |-> 0, den |-> 1].              *)
(***************************************************************************)
EXTENDS Integers, Sequences, FiniteSets, TLC

VARIABLES
    max_retries,          \* parameter of fetch_ticker_news_with_retry
    attempt,              \* loop variable of `for attempt in range(max_retries)`
    tried_without_dates,  \* TRUE once the date window has been dropped
    fpc,                  \* position inside fetch_ticker_news_with_retry
    resp,                 \* outcome of the provider call being handled
    log,                  \* sleeps and provider calls of the current fetch, in order
    result,               \* value returned by the fetch, None before it returns
    call,                 \* the arguments of the fetch and the date at its entry
    locals,               \* forced_from, forced_to and query of the fetch
    tickers,              \* main: the list parsed from --tickers
    i,                    \* main: enumerate index of the loop (0-based)
    pc,                   \* main: position inside the loop body
    started,              \* main: indexes whose "Processing ..." line was printed
    failed,               \* main: indexes whose body ended in the except clause
    pauses,               \* main: number of time.sleep(1) calls
    subjects              \* main: what each iteration has produced, in order

fetchVars == <<max_retries, attempt, tried_without_dates, fpc, resp, log, result>>
mainVars  == <<tickers, i, pc, started, failed, pauses, subjects>>
callVars  == <<call, locals>>
vars      == <<max_retries, attempt, tried_without_dates, fpc, resp, log, result,
               call, locals, tickers, i, pc, started, failed, pauses, subjects>>

---------------------------------------------------------------------------
(* Bounds *)

MaxRetries  == 3    \* max_retries ranges over 1..MaxRetries in Spec
MaxArticles == 2    \* the provider returns at most this many articles
MaxTickers  == 2    \* length of the --tickers list in BatchSpec
MaxHorizon  == 2    \* length of the forecasts adjust_forecast is applied to
MaxBackoff  == 5    \* max_retries ranges over 1..MaxBackoff in RetrySpec

(* Program constants *)

DefaultMaxRetries == 3
DefaultPageSize   == 5
WindowDays        == 30
BackoffBase       == 2
TickerPause       == 1

\* Python's None for a response or a result not yet assigned
None == [kind |-> "None"]

\* start_date = None, end_date = None: no date given (dates are day numbers)
NoDate == 0

\* the arguments of a call that passes the ticker only, and the day of the call;
\* w_start_date and w_end_date are the parameters of the wrapper fetch_ticker_news
DefaultCall ==
    [ticker |-> "AAPL", start_date |-> NoDate, end_date |-> NoDate,
     w_start_date |-> NoDate, w_end_date |-> NoDate,
     page_size |-> DefaultPageSize, today |-> 100]

---------------------------------------------------------------------------
(* Text *)

RECURSIVE Pow(_, _)
Pow(b, e) == IF e = 0 THEN 1 ELSE b * Pow(b, e - 1)

\* Python `sub in text`
Contains(text, sub) ==
    \E k \in 0..(Len(text) - Len(sub)) :
        \A j \in 1..Len(sub) : text[k + j] = sub[j]

FarInThePast    == <<"far", "in", "the", "past">>
TooFarInThePast == <<"too", "far", "in", "the", "past">>
ParameterInvalid == <<"parameterInvalid">>

\* messages the provider sends
MsgTooFar   == <<"You", "are", "trying", "to", "request", "results",
                 "too", "far", "in", "the", "past">>
MsgPageSize == <<"The", "pageSize", "parameter", "is", "invalid">>
MsgRate     == <<"You", "have", "made", "too", "many", "requests">>
MsgTimeout  == <<"Read", "timed", "out">>

Codes    == {"parameterInvalid", "rateLimited"}
Messages == {MsgTooFar, MsgPageSize, MsgRate}

\* str(e): an API exception prints its payload, a transport exception its text
Str(e) ==
    IF e.kind = "api"
    THEN <<"code">> \o <<e.code>> \o <<"message">> \o e.message
    ELSE e.message

---------------------------------------------------------------------------
(* Sentiment *)

Headlines == {"up", "down"}

\* SentimentIntensityAnalyzer.polarity_scores(text)["compound"], in hundredths
polarity_scores(title) ==
    CASE title = "up"   -> 50
      [] title = "down" -> -25
      [] OTHER          -> 0

RECURSIVE GCD(_, _)
GCD(a, b) == IF b = 0 THEN a ELSE GCD(b, a % b)

Abs(x) == IF x < 0 THEN -x ELSE x

\* the quotient n / d of two integers, d > 0
Div(n, d) ==
    LET g == GCD(Abs(n), d)
    IN  IF n = 0 THEN [num |-> 0, den |-> 1]
        ELSE [num |-> n \div g, den |-> d \div g]

Zero == [num |-> 0, den |-> 1]

RECURSIVE Sum(_)
Sum(s) == IF s = <<>> THEN 0 ELSE Head(s) + Sum(Tail(s))

\* the loop over articles: one record per article, in the provider's order
Results(articles) ==
    [k \in 1..Len(articles) |->
        [title |-> articles[k], sentiment |-> polarity_scores(articles[k])]]

Sentiments(articles) ==
    [k \in 1..Len(articles) |-> polarity_scores(articles[k])]

AvgSentiment_SumOnly(sentiments) ==
    IF sentiments # <<>> THEN Div(Sum(sentiments), 1) ELSE Zero

AvgSentiment_NoGuard(sentiments) ==
    IF sentiments # <<>> THEN Div(Sum(sentiments), Len(sentiments))
    ELSE [num |-> Sum(sentiments), den |-> Len(sentiments)]

\* (sum(sentiments) / len(sentiments)) if sentiments else 0.0, in hundredths
AvgSentiment(sentiments) ==
    IF sentiments # <<>> THEN Div(Sum(sentiments), Len(sentiments)) ELSE Zero

---------------------------------------------------------------------------
(* Provider outcomes *)

ArticleLists ==
    UNION {[1..n -> Headlines] : n \in 1..MaxArticles}

OkResponses    == {[kind |-> "ok", articles |-> a] : a \in ArticleLists \cup {<<>>}}
ErrorResponses == {[kind |-> "error", code |-> c, message |-> m] :
                       c \in Codes, m \in Messages}
ApiExceptions  == {[kind |-> "api", code |-> c, message |-> m] :
                       c \in Codes, m \in Messages}
TransportExceptions == {[kind |-> "transport", message |-> MsgTimeout]}
Exceptions     == ApiExceptions \cup TransportExceptions

Outcomes == OkResponses \cup ErrorResponses \cup Exceptions

\* the outcomes the batch run is explored with
BatchOutcomes ==
    { [kind |-> "ok", articles |-> <<"up">>],
      [kind |-> "ok", articles |-> <<>>],
      [kind |-> "error", code |-> "parameterInvalid", message |-> MsgTooFar],
      [kind |-> "transport", message |-> MsgTimeout] }

IsException(o) == o.kind \in {"api", "transport"}

Empty == [articles |-> <<>>, sentiment |-> Zero]

---------------------------------------------------------------------------
(* fetch_ticker_news_with_retry *)

\* ticker.upper()
Upper(ticker) ==
    CASE ticker = "aapl" -> "AAPL"
      [] OTHER           -> ticker

\* lines 25-72: the mapped tickers get the company name, the others pass through
ticker_to_company_name(ticker) ==
    CASE Upper(ticker) = "AAPL" -> "Apple"
      [] Upper(ticker) = "GME"  -> "GameStop"
      [] OTHER                  -> ticker

\* lines 105-106: "company" OR TICKER
Query(ticker) ==
    <<"\"", ticker_to_company_name(Upper(ticker)), "\"", "OR", Upper(ticker)>>

FetchEnter_KeepsFlag ==
    /\ fpc = "enter"
    /\ locals' = [forced_from |-> call.today - WindowDays,
                  forced_to   |-> call.today,
                  query       |-> Query(call.ticker)]
    /\ attempt' = 0
    /\ log' = <<>>
    /\ resp' = None
    /\ result' = None
    /\ fpc' = "top"
    /\ UNCHANGED <<max_retries, tried_without_dates, call, mainVars>>

\* lines 98-110: the locals of one call; dates are day numbers
FetchEnter ==
    /\ fpc = "enter"
    /\ locals' = [forced_from |-> call.today - WindowDays,
                  forced_to   |-> call.today,
                  query       |-> Query(call.ticker)]
    /\ attempt' = 0
    /\ tried_without_dates' = FALSE
    /\ log' = <<>>
    /\ resp' = None
    /\ result' = None
    /\ fpc' = "top"
    /\ UNCHANGED <<max_retries, call, mainVars>>

Wait_Constant(a) == BackoffBase

Wait_Linear(a) == BackoffBase * a

\* the waiting time before a retry
Wait(a) == Pow(BackoffBase, a)

\* lines 112-117: the range still has a value; sleep before every attempt but the first
BeginAttempt ==
    /\ fpc = "top"
    /\ attempt < max_retries
    /\ log' = IF attempt > 0
              THEN Append(log, [type |-> "wait", seconds |-> Wait(attempt)])
              ELSE log
    /\ fpc' = "call"
    /\ UNCHANGED <<max_retries, attempt, tried_without_dates, resp, result, mainVars, callVars>>

LoopExit_Hang ==
    /\ fpc = "top"
    /\ attempt >= max_retries
    /\ UNCHANGED vars

\* line 188: the range is exhausted
LoopExit ==
    /\ fpc = "top"
    /\ attempt >= max_retries
    /\ result' = Empty
    /\ fpc' = "done"
    /\ UNCHANGED <<max_retries, attempt, tried_without_dates, resp, log, mainVars, callVars>>

Kwargs_AlwaysDated ==
    [q |-> locals.query, language |-> "en", sort_by |-> "relevancy",
     page_size |-> call.page_size,
     from_param |-> locals.forced_from, to |-> locals.forced_to]

Kwargs_UsesStartDate ==
    LET base == [q |-> locals.query, language |-> "en", sort_by |-> "relevancy",
                 page_size |-> call.page_size]
    IN  IF ~tried_without_dates
        THEN base @@ [from_param |-> IF call.start_date # NoDate
                                     THEN call.start_date ELSE locals.forced_from,
                      to |-> IF call.end_date # NoDate
                             THEN call.end_date ELSE locals.forced_to]
        ELSE base

\* lines 119-128: the date window is included unless it was dropped
Kwargs ==
    LET base == [q |-> locals.query, language |-> "en", sort_by |-> "relevancy",
                 page_size |-> call.page_size]
    IN  IF ~tried_without_dates
        THEN base @@ [from_param |-> locals.forced_from, to |-> locals.forced_to]
        ELSE base

\* lines 119-130: the request and its answer
GetEverything(o) ==
    /\ fpc = "call"
    /\ log' = Append(log, [type |-> "call", attempt |-> attempt,
                           flag |-> tried_without_dates,
                           kwargs |-> Kwargs,
                           dates |-> "from_param" \in DOMAIN Kwargs,
                           answer |-> o])
    /\ resp' = o
    /\ fpc' = "handle"
    /\ UNCHANGED <<max_retries, attempt, tried_without_dates, result, mainVars, callVars>>

\* `continue`, and falling off the end of the except clause
Continue ==
    /\ attempt' = attempt + 1
    /\ fpc' = "top"
    /\ UNCHANGED result

Return(articles, sentiment) ==
    /\ result' = [articles |-> articles, sentiment |-> sentiment]
    /\ fpc' = "done"
    /\ UNCHANGED attempt

RejectedWindow_WrongText(r) ==
    r.code = "parameterInvalid" /\ Contains(r.message, <<"date", "range">>)

\* line 137
RejectedWindow(r) ==
    r.code = "parameterInvalid" /\ Contains(r.message, FarInThePast)

HandleErrorResponse_FreeDegrade ==
    /\ fpc = "handle"
    /\ resp.kind = "error"
    /\ IF RejectedWindow(resp) /\ ~tried_without_dates
       THEN /\ tried_without_dates' = TRUE
            /\ fpc' = "call"
            /\ UNCHANGED <<attempt, result>>
       ELSE /\ UNCHANGED tried_without_dates
            /\ IF attempt = max_retries - 1
               THEN Return(<<>>, Zero)
               ELSE Continue
    /\ UNCHANGED <<max_retries, resp, log, mainVars, callVars>>

\* lines 133-144: an error-style response
HandleErrorResponse ==
    /\ fpc = "handle"
    /\ resp.kind = "error"
    /\ IF RejectedWindow(resp) /\ ~tried_without_dates
       THEN tried_without_dates' = TRUE /\ Continue
       ELSE /\ UNCHANGED tried_without_dates
            /\ IF attempt = max_retries - 1
               THEN Return(<<>>, Zero)
               ELSE Continue
    /\ UNCHANGED <<max_retries, resp, log, mainVars, callVars>>

HandleNoArticles_NoRetry ==
    /\ fpc = "handle"
    /\ resp.kind = "ok"
    /\ resp.articles = <<>>
    /\ IF ~tried_without_dates
       THEN tried_without_dates' = TRUE /\ Continue
       ELSE /\ UNCHANGED tried_without_dates
            /\ Return(Results(resp.articles),
                      AvgSentiment(Sentiments(resp.articles)))
    /\ UNCHANGED <<max_retries, resp, log, mainVars, callVars>>

\* lines 146-155, and 157-175 when the last attempt falls through
HandleNoArticles ==
    /\ fpc = "handle"
    /\ resp.kind = "ok"
    /\ resp.articles = <<>>
    /\ IF ~tried_without_dates
       THEN tried_without_dates' = TRUE /\ Continue
       ELSE /\ UNCHANGED tried_without_dates
            /\ IF attempt < max_retries - 1
               THEN Continue
               ELSE Return(Results(resp.articles),
                           AvgSentiment(Sentiments(resp.articles)))
    /\ UNCHANGED <<max_retries, resp, log, mainVars, callVars>>

\* lines 157-175
HandleArticles ==
    /\ fpc = "handle"
    /\ resp.kind = "ok"
    /\ resp.articles # <<>>
    /\ Return(Results(resp.articles), AvgSentiment(Sentiments(resp.articles)))
    /\ UNCHANGED <<max_retries, tried_without_dates, resp, log, mainVars, callVars>>

\* line 180
ExceptionDropsDates(msg) ==
    Contains(msg, ParameterInvalid) \/ Contains(msg, TooFarInThePast)

HandleException_Reraise ==
    /\ fpc = "handle"
    /\ IsException(resp)
    /\ IF ExceptionDropsDates(Str(resp)) /\ ~tried_without_dates
       THEN tried_without_dates' = TRUE /\ Continue
       ELSE /\ UNCHANGED tried_without_dates
            /\ IF attempt = max_retries - 1
               THEN fpc' = "raised" /\ UNCHANGED <<attempt, result>>
               ELSE Continue
    /\ UNCHANGED <<max_retries, resp, log, mainVars, callVars>>

\* lines 177-186
HandleException ==
    /\ fpc = "handle"
    /\ IsException(resp)
    /\ IF ExceptionDropsDates(Str(resp)) /\ ~tried_without_dates
       THEN tried_without_dates' = TRUE /\ Continue
       ELSE /\ UNCHANGED tried_without_dates
            /\ IF attempt = max_retries - 1
               THEN Return(<<>>, Zero)
               ELSE Continue
    /\ UNCHANGED <<max_retries, resp, log, mainVars, callVars>>

---------------------------------------------------------------------------
(* One call of fetch_ticker_news_with_retry, for every max_retries *)

NoLocals == [forced_from |-> 0, forced_to |-> 0, query |-> <<>>]

Init ==
    /\ max_retries \in 1..MaxRetries
    /\ attempt = 0
    /\ tried_without_dates = FALSE
    /\ fpc = "enter"
    /\ resp = None
    /\ log = <<>>
    /\ result = None
    /\ call = DefaultCall
    /\ locals = NoLocals
    /\ tickers = <<"AAPL">>
    /\ i = 0
    /\ pc = "news"
    /\ started = <<0>>
    /\ failed = <<>>
    /\ pauses = 0
    /\ subjects = <<>>

Next ==
    \/ FetchEnter
    \/ BeginAttempt
    \/ LoopExit
    \/ \E o \in Outcomes : GetEverything(o)
    \/ HandleErrorResponse
    \/ HandleNoArticles
    \/ HandleArticles
    \/ HandleException

Spec == Init /\ [][Next]_vars

---------------------------------------------------------------------------
(* One call with a longer retry budget and one outcome of each kind *)

KindOutcomes ==
    { [kind |-> "ok", articles |-> <<"up">>],
      [kind |-> "ok", articles |-> <<>>],
      [kind |-> "error", code |-> "parameterInvalid", message |-> MsgTooFar],
      [kind |-> "error", code |-> "rateLimited", message |-> MsgRate],
      [kind |-> "api", code |-> "parameterInvalid", message |-> MsgTooFar],
      [kind |-> "transport", message |-> MsgTimeout] }

RetryInit ==
    /\ max_retries \in 1..MaxBackoff
    /\ attempt = 0
    /\ tried_without_dates = FALSE
    /\ fpc = "enter"
    /\ resp = None
    /\ log = <<>>
    /\ result = None
    /\ call = DefaultCall
    /\ locals = NoLocals
    /\ tickers = <<"AAPL">>
    /\ i = 0
    /\ pc = "news"
    /\ started = <<0>>
    /\ failed = <<>>
    /\ pauses = 0
    /\ subjects = <<>>

RetryNext ==
    \/ FetchEnter
    \/ BeginAttempt
    \/ LoopExit
    \/ \E o \in KindOutcomes : GetEverything(o)
    \/ HandleErrorResponse
    \/ HandleNoArticles
    \/ HandleArticles
    \/ HandleException

RetrySpec == RetryInit /\ [][RetryNext]_vars

\* the interpreter runs the next statement; provider calls and sleeps return
FairRetrySpec == RetrySpec /\ WF_vars(RetryNext)

---------------------------------------------------------------------------
(* Calls of fetch_ticker_news_with_retry and of the wrapper fetch_ticker_news
   with and without start_date and end_date, on two different days *)

CallInputs ==
    [ticker : {"AAPL", "aapl", "ZZZ"},
     start_date : {NoDate}, end_date : {NoDate},
     w_start_date : {NoDate, 80}, w_end_date : {NoDate, 95},
     page_size : {DefaultPageSize}, today : {100, 131}]
    \cup
    [ticker : {"AAPL", "aapl", "ZZZ"},
     start_date : {NoDate, 80}, end_date : {NoDate, 95},
     w_start_date : {NoDate}, w_end_date : {NoDate},
     page_size : {DefaultPageSize}, today : {100, 131}]

\* lines 212-221: the wrapper passes None for both dates
fetch_ticker_news ==
    /\ fpc = "wrapper"
    /\ call' = [call EXCEPT !.start_date = NoDate, !.end_date = NoDate]
    /\ max_retries' = DefaultMaxRetries
    /\ fpc' = "enter"
    /\ UNCHANGED <<attempt, tried_without_dates, resp, log, result, locals, mainVars>>

DatesInit ==
    /\ max_retries \in 1..MaxRetries
    /\ attempt = 0
    /\ tried_without_dates = FALSE
    /\ call \in CallInputs
    /\ fpc = IF call.w_start_date # NoDate \/ call.w_end_date # NoDate
             THEN "wrapper" ELSE "enter"
    /\ resp = None
    /\ log = <<>>
    /\ result = None
    /\ locals = NoLocals
    /\ tickers = <<"AAPL">>
    /\ i = 0
    /\ pc = "news"
    /\ started = <<0>>
    /\ failed = <<>>
    /\ pauses = 0
    /\ subjects = <<>>

DatesNext ==
    \/ fetch_ticker_news
    \/ FetchEnter
    \/ BeginAttempt
    \/ LoopExit
    \/ \E o \in KindOutcomes : GetEverything(o)
    \/ HandleErrorResponse
    \/ HandleNoArticles
    \/ HandleArticles
    \/ HandleException

DatesSpec == DatesInit /\ [][DatesNext]_vars

---------------------------------------------------------------------------
(* main: the loop over the tickers *)

TickerSet == {"AAPL", "ZZZ"}

TickerLists == UNION {[1..n -> TickerSet] : n \in 1..MaxTickers}

\* fit.forecast(12), shortened to two periods
Forecasts == {<<100, 102>>, <<40, 30>>}

\* df['Close'].resample('ME').mean().dropna(), shortened to two months
Monthly == <<90, 95>>

NoSubject == [index |-> 0, paused |-> 0, observations |-> "unknown", steps |-> <<>>,
              monthly |-> <<>>, forecast |-> <<>>, fetched |-> FALSE,
              without_dates |-> FALSE,
              news_items |-> <<>>, avg_sentiment |-> Zero,
              news_file |-> FALSE, adjust_ran |-> FALSE, adjusted |-> <<>>,
              plot |-> FALSE]

Current == subjects[Len(subjects)]

SetCurrent(r) == subjects' = [subjects EXCEPT ![Len(subjects)] = r]

Failed_Abort(error) ==
    /\ failed' = Append(failed, [index |-> i, error |-> error])
    /\ pc' = "aborted"
    /\ UNCHANGED i

\* lines 332-333: the except clause, then the next ticker
Failed(error) ==
    /\ failed' = Append(failed, [index |-> i, error |-> error])
    /\ i' = i + 1
    /\ pc' = "loop"

StartSubject_PauseAlways ==
    /\ pc = "loop"
    /\ i < Len(tickers)
    /\ started' = Append(started, i)
    /\ pauses' = pauses + TickerPause
    /\ subjects' = Append(subjects, [NoSubject EXCEPT !.index = i,
                                                      !.paused = TickerPause])
    /\ pc' = "forecast"
    /\ UNCHANGED <<tickers, i, failed, fetchVars, callVars>>

\* lines 306-313
StartSubject ==
    /\ pc = "loop"
    /\ i < Len(tickers)
    /\ started' = Append(started, i)
    /\ pauses' = IF i > 0 THEN pauses + TickerPause ELSE pauses
    /\ subjects' = Append(subjects,
                          [NoSubject EXCEPT !.index = i,
                                            !.paused = IF i > 0 THEN TickerPause ELSE 0])
    /\ pc' = "forecast"
    /\ UNCHANGED <<tickers, i, failed, fetchVars, callVars>>

\* line 306: the list is exhausted
LoopEnd ==
    /\ pc = "loop"
    /\ i >= Len(tickers)
    /\ pc' = "exit"
    /\ UNCHANGED <<tickers, i, started, failed, pauses, subjects, fetchVars, callVars>>

ForecastOutcomes == {"ok", "empty", "download raises", "fit raises"}

FetchAndForecast_NoEmptyCheck(o, f) ==
    /\ pc = "forecast"
    /\ CASE o = "ok" ->
             /\ SetCurrent([Current EXCEPT
                               !.observations = "some",
                               !.steps = <<"download", "resample", "fit", "forecast">>,
                               !.monthly = Monthly,
                               !.forecast = f])
             /\ pc' = "call news"
             /\ UNCHANGED <<i, failed>>
         [] o = "empty" ->
             /\ SetCurrent([Current EXCEPT
                               !.observations = "none",
                               !.steps = <<"download", "resample", "fit">>])
             /\ Failed("Exception")
         [] o = "download raises" ->
             /\ SetCurrent([Current EXCEPT !.steps = <<"download">>])
             /\ Failed("Exception")
         [] OTHER ->
             /\ SetCurrent([Current EXCEPT
                               !.observations = "some",
                               !.steps = <<"download", "resample", "fit">>])
             /\ Failed("Exception")
    /\ UNCHANGED <<tickers, started, pauses, fetchVars, callVars>>

FetchAndForecast_SwallowsFailure(o, f) ==
    /\ pc = "forecast"
    /\ CASE o = "ok" ->
             SetCurrent([Current EXCEPT
                            !.observations = "some",
                            !.steps = <<"download", "resample", "fit", "forecast">>,
                            !.monthly = Monthly,
                            !.forecast = f])
         [] o = "empty" ->
             SetCurrent([Current EXCEPT
                            !.observations = "none",
                            !.steps = <<"download">>])
         [] o = "download raises" ->
             SetCurrent([Current EXCEPT !.steps = <<"download">>])
         [] OTHER ->
             SetCurrent([Current EXCEPT
                            !.observations = "some",
                            !.steps = <<"download", "resample", "fit">>])
    /\ pc' = "call news"
    /\ UNCHANGED <<i, failed, tickers, started, pauses, fetchVars, callVars>>

\* line 315 and fetch_and_forecast, lines 197-209; steps lists what was attempted
FetchAndForecast(o, f) ==
    /\ pc = "forecast"
    /\ CASE o = "ok" ->
             /\ SetCurrent([Current EXCEPT
                               !.observations = "some",
                               !.steps = <<"download", "resample", "fit", "forecast">>,
                               !.monthly = Monthly,
                               !.forecast = f])
             /\ pc' = "call news"
             /\ UNCHANGED <<i, failed>>
         [] o = "empty" ->
             /\ SetCurrent([Current EXCEPT
                               !.observations = "none",
                               !.steps = <<"download">>])
             /\ Failed("ValueError")
         [] o = "download raises" ->
             /\ SetCurrent([Current EXCEPT !.steps = <<"download">>])
             /\ Failed("Exception")
         [] OTHER ->
             /\ SetCurrent([Current EXCEPT
                               !.observations = "some",
                               !.steps = <<"download", "resample", "fit">>])
             /\ Failed("Exception")
    /\ UNCHANGED <<tickers, started, pauses, fetchVars, callVars>>

\* lines 318-320 and the wrapper fetch_ticker_news, lines 212-221
CallFetchTickerNews ==
    /\ pc = "call news"
    /\ pc' = "news"
    /\ fpc' = "enter"
    /\ max_retries' = DefaultMaxRetries
    /\ call' = [call EXCEPT !.ticker = tickers[i + 1],
                            !.w_start_date = NoDate,
                            !.w_end_date = NoDate,
                            !.start_date = NoDate,
                            !.end_date = NoDate,
                            !.page_size = DefaultPageSize]
    /\ UNCHANGED <<attempt, tried_without_dates, resp, log, result, locals, tickers,
                   i, started, failed, pauses, subjects>>

\* lines 318-320: the returned pair is bound to news_items, avg_sentiment
NewsReturn ==
    /\ pc = "news"
    /\ fpc = "done"
    /\ SetCurrent([Current EXCEPT !.fetched = TRUE,
                                  !.without_dates = tried_without_dates,
                                  !.news_items = result.articles,
                                  !.avg_sentiment = result.sentiment])
    /\ pc' = "write"
    /\ fpc' = "idle"
    /\ UNCHANGED <<max_retries, attempt, tried_without_dates, resp, log, result,
                   call, locals, tickers, i, started, failed, pauses>>

\* lines 321-324
WriteNews(ok) ==
    /\ pc = "write"
    /\ IF ok
       THEN /\ SetCurrent([Current EXCEPT !.news_file = TRUE])
            /\ pc' = "adjust"
            /\ UNCHANGED <<i, failed>>
       ELSE Failed("OSError") /\ UNCHANGED subjects
    /\ UNCHANGED <<tickers, started, pauses, fetchVars, callVars>>

Min(a, b) == IF a < b THEN a ELSE b
Max(a, b) == IF a > b THEN a ELSE b

adjust_forecast_Clamped(forecast, sentiment_score) ==
    LET d == 100 * sentiment_score.den
        n == Max(-d, Min(d, sentiment_score.num))
    IN  [k \in 1..Len(forecast) |-> Div(forecast[k] * (d + n), d)]

\* forecast * (1 + sentiment_score), the sentiment being in hundredths
adjust_forecast(forecast, sentiment_score) ==
    [k \in 1..Len(forecast) |->
        Div(forecast[k] * (100 * sentiment_score.den + sentiment_score.num),
            100 * sentiment_score.den)]

AdjustForecast_StaleSentiment ==
    /\ pc = "adjust"
    /\ SetCurrent([Current EXCEPT
                      !.adjust_ran = TRUE,
                      !.adjusted = adjust_forecast(Current.forecast,
                                                   subjects[1].avg_sentiment)])
    /\ pc' = "plot"
    /\ UNCHANGED <<tickers, i, started, failed, pauses, fetchVars, callVars>>

\* line 327
AdjustForecast ==
    /\ pc = "adjust"
    /\ SetCurrent([Current EXCEPT
                      !.adjust_ran = TRUE,
                      !.adjusted = adjust_forecast(Current.forecast,
                                                   Current.avg_sentiment)])
    /\ pc' = "plot"
    /\ UNCHANGED <<tickers, i, started, failed, pauses, fetchVars, callVars>>

\* line 330, then the next ticker
PlotAndSave(ok) ==
    /\ pc = "plot"
    /\ IF ok
       THEN /\ SetCurrent([Current EXCEPT !.plot = TRUE])
            /\ i' = i + 1
            /\ pc' = "loop"
            /\ UNCHANGED failed
       ELSE Failed("Exception") /\ UNCHANGED subjects
    /\ UNCHANGED <<tickers, started, pauses, fetchVars, callVars>>

BatchInit ==
    /\ max_retries = DefaultMaxRetries
    /\ attempt = 0
    /\ tried_without_dates = FALSE
    /\ fpc = "idle"
    /\ resp = None
    /\ log = <<>>
    /\ result = None
    /\ call = DefaultCall
    /\ locals = NoLocals
    /\ tickers \in TickerLists
    /\ i = 0
    /\ pc = "loop"
    /\ started = <<>>
    /\ failed = <<>>
    /\ pauses = 0
    /\ subjects = <<>>

BatchNext ==
    \/ StartSubject
    \/ LoopEnd
    \/ \E o \in ForecastOutcomes, f \in Forecasts : FetchAndForecast(o, f)
    \/ CallFetchTickerNews
    \/ FetchEnter
    \/ BeginAttempt
    \/ LoopExit
    \/ \E o \in BatchOutcomes : GetEverything(o)
    \/ HandleErrorResponse
    \/ HandleNoArticles
    \/ HandleArticles
    \/ HandleException
    \/ NewsReturn
    \/ \E ok \in BOOLEAN : WriteNews(ok)
    \/ AdjustForecast
    \/ \E ok \in BOOLEAN : PlotAndSave(ok)

BatchSpec == BatchInit /\ [][BatchNext]_vars

---------------------------------------------------------------------------
(* adjust_forecast applied to every forecast and sentiment of a bounded set *)

ForecastValues == {-7, 0, 100}

ForecastInputs == UNION {[1..n -> ForecastValues] : n \in 0..MaxHorizon}

\* sentiments in hundredths, inside and outside [-1, 1]
SentimentInputs ==
    {[num |-> n, den |-> 1] : n \in {-250, -100, -25, 0, 10, 100, 300}}
        \cup {[num |-> 25, den |-> 2]}

AdjustInit ==
    /\ max_retries = DefaultMaxRetries
    /\ attempt = 0
    /\ tried_without_dates = FALSE
    /\ fpc = "idle"
    /\ resp = None
    /\ log = <<>>
    /\ result = None
    /\ call = DefaultCall
    /\ locals = NoLocals
    /\ tickers = <<"AAPL">>
    /\ i = 0
    /\ pc = "adjust"
    /\ started = <<0>>
    /\ failed = <<>>
    /\ pauses = 0
    /\ \E f \in ForecastInputs, sent \in SentimentInputs :
         subjects = << [NoSubject EXCEPT
                          !.observations = "some",
                          !.steps = <<"download", "resample", "fit", "forecast">>,
                          !.monthly = Monthly,
                          !.forecast = f,
                          !.fetched = TRUE,
                          !.avg_sentiment = sent,
                          !.news_file = TRUE] >>

AdjustNext == AdjustForecast

AdjustSpec == AdjustInit /\ [][AdjustNext]_vars

---------------------------------------------------------------------------
(* Properties of one fetch *)

IsCall(e) == e.type = "call"
IsWait(e) == e.type = "wait"

Calls == SelectSeq(log, IsCall)
Waits == SelectSeq(log, IsWait)

HasArticles(o) == o.kind = "ok" /\ o.articles # <<>>
NoArticles(o)  == o.kind = "ok" /\ o.articles = <<>>

\* the provider's rejection of the date window, as a response or as a raised payload
WindowRejection(o) ==
    /\ o.kind \in {"error", "api"}
    /\ o.code = "parameterInvalid"
    /\ Contains(o.message, TooFarInThePast)

FetchPositions == {"idle", "enter", "top", "call", "handle", "done"}

\* C1: the fetch never leaves by an exception and never stops short of a result;
\* it returns a pair (articles, sentiment), and the pair is ([], 0.0) whenever no
\* call of the fetch was answered with at least one article.
C1_NeverRaises ==
    /\ fpc \in FetchPositions
    /\ fpc # "done" => ENABLED Next
    /\ fpc = "done" =>
         /\ DOMAIN result = {"articles", "sentiment"}
         /\ (\A k \in 1..Len(Calls) : ~HasArticles(Calls[k].answer)) => result = Empty

C1_Witness ==
    /\ fpc = "done"
    /\ max_retries = 3
    /\ Len(Calls) = 3
    /\ IsException(Calls[1].answer)
    /\ Calls[2].answer.kind = "error"
    /\ NoArticles(Calls[3].answer)
    /\ result = Empty

\* C2: after a call that carried the date window and was answered with the
\* rejection of the window, the next provider call follows with no wait in
\* between and with the same attempt index.
C2_DegradeIsImmediate ==
    \A k \in 1..Len(log) :
        ( /\ IsCall(log[k])
          /\ log[k].dates
          /\ WindowRejection(log[k].answer)
          /\ k < Len(log) )
        => /\ IsCall(log[k + 1])
           /\ log[k + 1].attempt = log[k].attempt

\* C3: a fetch that has dropped the date window makes a call without it
\* before it returns.
C3_CallAfterDegrade ==
    (fpc = "done" /\ tried_without_dates)
        => \E k \in 1..Len(Calls) : ~Calls[k].dates

\* C4: with max_retries = 3, a first call rejected for its date window and a
\* second call answered with k >= 1 articles: the second call carries no date
\* window and the fetch returns exactly those k articles.
C4_DegradeThenSuccess ==
    ( /\ max_retries = DefaultMaxRetries
      /\ Len(Calls) >= 2
      /\ WindowRejection(Calls[1].answer)
      /\ HasArticles(Calls[2].answer) )
    => /\ Calls[1].dates
       /\ ~Calls[2].dates
       /\ Len(Calls) = 2
       /\ fpc \in {"handle", "done"}
       /\ fpc = "done" =>
            /\ Len(result.articles) = Len(Calls[2].answer.articles)
            /\ \A j \in 1..Len(result.articles) :
                 result.articles[j].title = Calls[2].answer.articles[j]

C4_Witness ==
    /\ fpc = "done"
    /\ max_retries = DefaultMaxRetries
    /\ Len(Calls) = 2
    /\ Calls[1].answer.kind = "error"
    /\ WindowRejection(Calls[1].answer)
    /\ HasArticles(Calls[2].answer)
    /\ Len(result.articles) = 2

AllTransport ==
    \A k \in 1..Len(Calls) : Calls[k].answer.kind = "transport"

\* C5: when every call fails with a transport exception, the fetch makes
\* max_retries calls, all with the date window, with one wait between each two
\* consecutive calls, each wait longer than the one before, and returns ([], 0.0).
C5_AllTransportFailures ==
    (fpc = "done" /\ AllTransport)
    => /\ Len(Calls) = max_retries
       /\ Len(Waits) = max_retries - 1
       /\ Len(log) = 2 * max_retries - 1
       /\ \A k \in 1..Len(log) :
            IF k % 2 = 1 THEN IsCall(log[k]) /\ log[k].dates ELSE IsWait(log[k])
       /\ \A k \in 1..(Len(Waits) - 1) : Waits[k].seconds < Waits[k + 1].seconds
       /\ result = Empty

C5_Witness ==
    /\ fpc = "done"
    /\ max_retries = 3
    /\ AllTransport
    /\ Len(Waits) = 2
    /\ Waits[1].seconds < Waits[2].seconds
    /\ result = Empty

\* the closed set of outcomes that may drop the date window
DegradeTrigger(o) == WindowRejection(o) \/ NoArticles(o)

\* C6: the date window is dropped only after a call that carried it was
\* answered with the rejection of the window (code parameterInvalid, message
\* about the window being too far in the past) or with zero articles.
C6_OnlyDegradeTriggers ==
    tried_without_dates =>
        \E k \in 1..Len(Calls) : Calls[k].dates /\ DegradeTrigger(Calls[k].answer)

\* C7: zero articles on a call made without the date window counts as a used
\* attempt: before the last attempt it is followed by the backoff wait and a
\* further call without the date window, on the last attempt the fetch ends
\* with ([], 0.0).
C7_EmptyAfterDegradeCounts ==
    \A k \in 1..Len(log) :
        (IsCall(log[k]) /\ ~log[k].dates /\ NoArticles(log[k].answer))
        => IF log[k].attempt < max_retries - 1
           THEN /\ fpc = "done" => Len(log) >= k + 2
                /\ k + 1 <= Len(log) =>
                     /\ IsWait(log[k + 1])
                     /\ log[k + 1].seconds = Wait(log[k].attempt + 1)
                /\ k + 2 <= Len(log) =>
                     /\ IsCall(log[k + 2])
                     /\ ~log[k + 2].dates
                     /\ log[k + 2].attempt = log[k].attempt + 1
           ELSE /\ k = Len(log)
                /\ fpc \in {"handle", "done"}
                /\ fpc = "done" => result = Empty

C7_Witness ==
    /\ fpc = "done"
    /\ max_retries = 3
    /\ Len(Calls) = 3
    /\ ~Calls[2].dates
    /\ NoArticles(Calls[2].answer)
    /\ NoArticles(Calls[3].answer)
    /\ Len(Waits) = 2
    /\ result = Empty

\* C8: a call answered with k >= 1 articles is the last event of the fetch; the
\* fetch returns k records in the provider's order, each with its own score,
\* and the arithmetic mean of the k scores.
C8_SuccessReturnsArticlesAndMean ==
    \A k \in 1..Len(log) :
        (IsCall(log[k]) /\ HasArticles(log[k].answer))
        => LET a == log[k].answer.articles
           IN  /\ k = Len(log)
               /\ fpc \in {"handle", "done"}
               /\ fpc = "done" =>
                    /\ Len(result.articles) = Len(a)
                    /\ \A j \in 1..Len(a) :
                         /\ result.articles[j].title = a[j]
                         /\ result.articles[j].sentiment = polarity_scores(a[j])
                    /\ result.sentiment.den > 0
                    /\ result.sentiment.num * Len(a)
                         = Sum(Sentiments(a)) * result.sentiment.den

C8_Witness ==
    /\ fpc = "done"
    /\ Len(Calls) = 2
    /\ result.articles = << [title |-> "up", sentiment |-> 50],
                            [title |-> "down", sentiment |-> -25] >>
    /\ result.sentiment = [num |-> 25, den |-> 2]

\* C9: in every returned result an empty article list is paired with 0.0.
C9_EmptyIsNeutral ==
    (fpc = "done" /\ result.articles = <<>>) => result.sentiment = Zero

\* the empty list went through the aggregation of lines 157-175
C9_Witness ==
    /\ fpc = "done"
    /\ result.articles = <<>>
    /\ result.sentiment = Zero
    /\ NoArticles(log[Len(log)].answer)
    /\ log[Len(log)].attempt = max_retries - 1
    /\ ~log[Len(log)].dates

---------------------------------------------------------------------------
(* Properties of the batch *)

MainPositions == {"loop", "forecast", "call news", "news", "write", "adjust",
                  "plot", "exit"}

\* C10: whatever step of whichever ticker fails, the loop goes on: the tickers
\* are started once each, in input order, and the loop reaches the end of the
\* list.
C10_BatchNeverAborts ==
    /\ pc \in MainPositions
    /\ pc # "exit" => ENABLED BatchNext
    /\ started = [k \in 1..Len(started) |-> k - 1]
    /\ Len(started) = IF pc = "loop" THEN i ELSE IF pc = "exit" THEN Len(tickers) ELSE i + 1
    /\ pc = "exit" => i = Len(tickers)

C10_Witness ==
    /\ pc = "exit"
    /\ Len(tickers) = 2
    /\ started = <<0, 1>>
    /\ Len(failed) = 2
    /\ failed[1].error = "ValueError"
    /\ failed[2].error = "OSError"

\* C11: a batch of N tickers sleeps N - 1 times for one second: not before the
\* first ticker, once before each later one ahead of its download and its news
\* fetch, whatever happened to the tickers before it.
C11_PausesBetweenTickers ==
    /\ pauses = (IF Len(started) = 0 THEN 0 ELSE Len(started) - 1) * TickerPause
    /\ pc = "exit" => pauses = Len(tickers) - 1
    /\ \A k \in 1..Len(subjects) :
         /\ subjects[k].paused = (IF k = 1 THEN 0 ELSE 1)
         /\ (subjects[k].steps # <<>> \/ subjects[k].fetched) =>
               pauses >= k - 1

C11_Witness ==
    /\ pc = "exit"
    /\ Len(tickers) = 2
    /\ pauses = 1
    /\ Len(failed) = 1
    /\ failed[1].index = 0
    /\ subjects[2].plot

\* the error and the trace of fetch_and_forecast for the tickers with no observations
EmptyDownloads == {k \in 1..Len(subjects) : subjects[k].observations = "none"}

ErrorOf(k) ==
    LET f == SelectSeq(failed, LAMBDA e : e.index = subjects[k].index)
    IN  IF f = <<>> THEN "" ELSE f[1].error

Scaled(a, f, sent) ==
    /\ a.den > 0
    /\ a.num * (100 * sent.den) = f * (100 * sent.den + sent.num) * a.den

Adjusted(r) ==
    /\ DOMAIN r.adjusted = DOMAIN r.forecast
    /\ \A j \in DOMAIN r.forecast :
         Scaled(r.adjusted[j], r.forecast[j], r.avg_sentiment)

\* C13: for every forecast and every sentiment, inside [-1, 1] or not, the
\* adjusted forecast has the periods of the forecast and
\* adjusted[j] = forecast[j] * (1 + sentiment) at every period j; the forecast
\* passed in stays as it was.
C13_AdjustIsLinear ==
    /\ [](\A k \in 1..Len(subjects) : subjects[k].adjust_ran => Adjusted(subjects[k]))
    /\ [][pc = "adjust" => Current.forecast' = Current.forecast]_vars

C13_Witness ==
    /\ pc = "plot"
    /\ Current.adjust_ran
    /\ Current.avg_sentiment = [num |-> 300, den |-> 1]
    /\ Current.forecast = <<-7, 100>>
    /\ Current.adjusted = << [num |-> -28, den |-> 1], [num |-> 400, den |-> 1] >>

\* C14: no wait precedes the attempt with index 0; the attempt with index
\* k >= 1 is preceded by exactly one wait, the k-th of the fetch; the waits of a
\* fetch are 2, 4, 8, ... seconds in that order, each the double of the one
\* before, whatever the provider answered.
C14_WaitsAreTwoToTheAttempt ==
    /\ \A k \in 1..Len(log) :
         /\ IsCall(log[k]) =>
              IF log[k].attempt = 0
              THEN k = 1
              ELSE /\ k > 2
                   /\ IsWait(log[k - 1])
                   /\ IsCall(log[k - 2])
                   /\ log[k - 1] = Waits[log[k].attempt]
         /\ IsWait(log[k]) => (k > 1 /\ IsCall(log[k - 1]))
    /\ \A j \in 1..Len(Waits) :
         Waits[j].seconds = IF j = 1 THEN 2 ELSE 2 * Waits[j - 1].seconds

C14_Witness ==
    /\ fpc = "done"
    /\ max_retries = 5
    /\ Len(Calls) = 5
    /\ Calls[1].answer.kind = "transport"
    /\ NoArticles(Calls[2].answer)
    /\ [j \in 1..Len(Waits) |-> Waits[j].seconds] = <<2, 4, 8, 16>>

\* the two terminal outcomes of a fetch
Succeeded ==
    /\ fpc = "done"
    /\ result.articles # <<>>
    /\ HasArticles(log[Len(log)].answer)

Exhausted == fpc = "done" /\ result = Empty

\* C15: every fetch ends: it reaches success with articles or exhaustion with
\* ([], 0.0), and from then on makes no provider call and keeps its result.
C15_FetchTerminates ==
    /\ <>(fpc = "done")
    /\ [](fpc = "done" => (Succeeded \/ Exhausted))
    /\ [][fpc = "done" => (fpc' = "done" /\ log' = log /\ result' = result)]_vars

C15_Witness ==
    /\ Exhausted
    /\ max_retries = 5
    /\ Len(Calls) = 5
    /\ \A k \in 1..5 : Calls[k].answer.kind = "error"

\* C16: every fetch starts afresh: before its first call the attempt index is
\* 0 and the date window is in force, and its first call carries the date
\* window, however the fetch of an earlier ticker ended.
C16_RetryStateIsPerFetch ==
    /\ (fpc \in {"top", "call"} /\ log = <<>>) =>
          (attempt = 0 /\ ~tried_without_dates)
    /\ (fpc \in {"top", "call", "handle", "done"} /\ Len(Calls) >= 1) =>
          /\ Calls[1].attempt = 0
          /\ ~Calls[1].flag
          /\ Calls[1].dates
          /\ Calls[1].kwargs.from_param = locals.forced_from
          /\ Calls[1].kwargs.to = locals.forced_to

\* the first call of the second ticker, after the first ticker's fetch dropped the window
C16_Witness ==
    /\ pc = "news"
    /\ Len(subjects) = 2
    /\ subjects[1].fetched
    /\ subjects[1].without_dates
    /\ fpc = "handle"
    /\ Len(Calls) = 1
    /\ Calls[1].dates

\* the query of each ticker
ExpectedQuery(ticker) ==
    CASE ticker \in {"AAPL", "aapl"} -> <<"\"", "Apple", "\"", "OR", "AAPL">>
      [] ticker = "ZZZ"              -> <<"\"", "ZZZ", "\"", "OR", "ZZZ">>

\* C17: whatever start_date and end_date the caller passes, to the fetch or to
\* the wrapper, every request is made of the ticker's query, the page size and,
\* while the window is in force, the 30 days up to the day of the call; the
\* request fields, and with them the waits and the result, are fixed by the
\* other arguments, the day and the provider's answers.
C17_CallerDatesIgnored ==
    /\ fpc \in {"top", "call", "handle", "done"} =>
          /\ locals.forced_to = call.today
          /\ locals.forced_from = call.today - 30
          /\ locals.query = ExpectedQuery(call.ticker)
    /\ \A k \in 1..Len(Calls) :
          LET kw == Calls[k].kwargs
          IN  /\ kw.q = ExpectedQuery(call.ticker)
              /\ kw.page_size = call.page_size
              /\ kw.language = "en"
              /\ kw.sort_by = "relevancy"
              /\ DOMAIN kw = IF Calls[k].flag
                             THEN {"q", "language", "sort_by", "page_size"}
                             ELSE {"q", "language", "sort_by", "page_size",
                                   "from_param", "to"}
              /\ ~Calls[k].flag => (kw.from_param = call.today - 30 /\ kw.to = call.today)

C17_Witness ==
    /\ fpc = "done"
    /\ call.start_date = 80
    /\ call.end_date = 95
    /\ call.today = 131
    /\ Len(Calls) = 2
    /\ Calls[1].kwargs.from_param = 101
    /\ Calls[1].kwargs.to = 131
    /\ ~Calls[2].dates
    /\ result.articles # <<>>

\* C18: the adjustment of a ticker runs after its forecast and its news fetch
\* have returned, and multiplies that forecast by one plus the mean sentiment
\* that fetch returned.
C18_AdjustUsesOwnForecastAndSentiment ==
    \A k \in 1..Len(subjects) :
        LET r == subjects[k]
        IN  /\ ~r.adjust_ran => r.adjusted = <<>>
            /\ r.adjust_ran =>
                 /\ r.steps = <<"download", "resample", "fit", "forecast">>
                 /\ r.forecast \in Forecasts
                 /\ r.fetched
                 /\ Adjusted(r)
            /\ (k = Len(subjects) /\ pc \in {"write", "adjust", "plot"}) =>
                 /\ fpc = "idle"
                 /\ r.avg_sentiment = result.sentiment
                 /\ Len(r.news_items) = Len(result.articles)

C18_Witness ==
    /\ pc = "plot"
    /\ Len(subjects) = 2
    /\ subjects[1].adjust_ran
    /\ subjects[1].avg_sentiment = Zero
    /\ subjects[1].forecast = <<100, 102>>
    /\ subjects[2].forecast = <<40, 30>>
    /\ subjects[2].avg_sentiment = [num |-> 50, den |-> 1]
    /\ subjects[2].adjusted = << [num |-> 60, den |-> 1], [num |-> 45, den |-> 1] >>

\* C19: a fetch calls the provider at least once and at most max_retries times;
\* the k-th call is the attempt with index k - 1, whether it follows a backoff
\* or the dropping of the date window.
C19_CallsWithinMaxRetries ==
    /\ Len(Calls) <= max_retries
    /\ \A k \in 1..Len(Calls) : Calls[k].attempt = k - 1
    /\ fpc = "done" => Len(Calls) >= 1

C19_Witness ==
    /\ fpc = "done"
    /\ max_retries = 3
    /\ Len(Calls) = 3
    /\ Calls[1].answer.kind = "error"
    /\ ~RejectedWindow(Calls[1].answer)
    /\ Calls[2].answer.kind = "error"
    /\ RejectedWindow(Calls[2].answer)
    /\ ~Calls[2].flag
    /\ Calls[3].flag

\* C20: a call carries from/to exactly when tried_without_dates was False at
\* the call; after a call without the window every later call of the fetch is
\* without it; tried_without_dates, once True, stays True to the end of the fetch.
C20_WindowFollowsFlag ==
    /\ [](/\ \A k \in 1..Len(Calls) :
               /\ Calls[k].dates <=> ~Calls[k].flag
               /\ Calls[k].dates <=>
                    {"from_param", "to"} \subseteq DOMAIN Calls[k].kwargs
               /\ ~Calls[k].dates =>
                    {"from_param", "to"} \cap DOMAIN Calls[k].kwargs = {}
               /\ Calls[k].flag => tried_without_dates
          /\ \A j, k \in 1..Len(Calls) :
               (j < k /\ ~Calls[j].dates) => ~Calls[k].dates)
    /\ [][tried_without_dates => tried_without_dates']_vars

C20_Witness ==
    /\ fpc = "done"
    /\ Len(Calls) = 3
    /\ Calls[1].dates
    /\ ~Calls[2].dates
    /\ ~Calls[3].dates
    /\ tried_without_dates

FullForecast == <<"download", "resample", "fit", "forecast">>

\* the ticker of subjects[k] ended in the except clause
FailedSubject(k) == \E j \in 1..Len(failed) : failed[j].index = subjects[k].index

\* fetch_and_forecast ran for subjects[k] and raised
ForecastFailed(k) == subjects[k].steps \notin {<<>>, FullForecast}

\* C21: a ticker whose download or fit raised gets no news fetch (no call of the
\* provider), no news file, no adjusted forecast and no plot; a ticker that
\* failed at the news step or later gets no plot.
C21_FailureSkipsTheRest ==
    /\ [](/\ \A k \in 1..Len(subjects) :
               LET r == subjects[k]
               IN  /\ ForecastFailed(k) =>
                         /\ FailedSubject(k)
                         /\ ~r.fetched
                         /\ r.news_items = <<>>
                         /\ ~r.news_file
                         /\ ~r.adjust_ran
                         /\ r.adjusted = <<>>
                         /\ ~r.plot
                   /\ FailedSubject(k) => ~r.plot
                   /\ r.plot => (r.fetched /\ r.news_file /\ r.adjust_ran)
          /\ fpc \notin {"idle", "done"} =>
               (pc = "news" /\ Current.steps = FullForecast
                            /\ ~FailedSubject(Len(subjects))))
    /\ [][(fpc' = "enter" \/ Len(log') > Len(log)) =>
             (/\ pc' = "news"
              /\ Current.steps = FullForecast
              /\ ~FailedSubject(Len(subjects)))]_vars

C21_Witness ==
    /\ pc = "exit"
    /\ Len(subjects) = 2
    /\ subjects[1].steps = <<"download", "resample", "fit">>
    /\ ~subjects[1].fetched
    /\ ~subjects[1].plot
    /\ subjects[2].steps = FullForecast
    /\ subjects[2].fetched
    /\ subjects[2].news_file
    /\ subjects[2].adjust_ran
    /\ ~subjects[2].plot
    /\ Len(failed) = 2
    /\ failed[2].index = 1

====
